---- MODULE Spec2Model ----
(***************************************************************************)
(* k8s-secret-sync: the reconciliation handler of pkg/sync (Run.AddFunc),  *)
(* the object store it patches and the informer that feeds it.             *)
(*                                                                         *)
(* A secret is [id, ann, data]: ann maps annotation keys to strings, data  *)
(* maps data keys to byte sequences.  Strings that travel as bytes (the    *)
(* fetched value) are sequences of numbers 0..255.                         *)
(***************************************************************************)
EXTENDS Integers, Sequences, FiniteSets, TLC

VARIABLES
    store,   \* the cluster's secrets: a function from the ids that exist to
             \* [ann, data, labels, type]
    queue,   \* notifications the informer has not delivered yet, oldest first
    h,       \* what the most recent handler invocation saw and did
    prev,    \* outcome and object id of the invocation before that one
    clock,   \* time.Now(), in seconds
    proc,    \* "running" or "crashed" (a panic escaped the handler)
    starts,  \* how many times the process has been started again
    nGet,    \* how many GetSecretValue calls have been made so far
    pc,      \* where main is: "start", "config", "run", "informer" or "exited"
    token,   \* whether OP_SERVICE_ACCOUNT_TOKEN holds a credential
    ctxDone, \* whether the context of signal.NotifyContext has been cancelled
    environ, \* the KSS_* variables of the process environment that are set
    out,     \* the most recent call into package config and what it returned
    conf,    \* the *config.Sync main got from config.New and handed to Run
    resync,  \* the resync period of the informer, in seconds (0: no informer yet)
    zeroTime,\* how this build's encoding/json writes a zero metav1.Time: "null" or "omitted"
    flight   \* the handler invocations that have started and not returned, oldest first

vars == <<store, queue, h, prev, clock, proc, starts, nGet, pc, token, ctxDone, environ, out,
          conf, resync, zeroTime, flight>>

\* what the informer and its handler never write
mainVars == <<pc, token, ctxDone, environ, out, resync, zeroTime>>

----------------------------------------------------------------------------
(* Bounds of the model *)

MaxClock == 1
MaxRestarts == 1

----------------------------------------------------------------------------
(* Configuration: config.New with no KSS_* variable set *)

cfg ==
    [ Annotations |->
        [ ProviderName |-> "k8s-secret-sync.weinbender.io/provider-name",
          ProviderRef  |-> "k8s-secret-sync.weinbender.io/provider-ref",
          SecretKey    |-> "k8s-secret-sync.weinbender.io/secret-key" ],
      DefaultSecretDataKey |-> "value" ]

LastSynced == "last-synced"

----------------------------------------------------------------------------
(* Package config: env and New.  A Go string is a TLA+ string; Chars spells *)
(* the strings the model puts into the environment, one character each, so  *)
(* that strconv can be followed character by character.                     *)

Chars(s) ==
    CASE s = ""                         -> <<>>
      [] s = "0"                        -> <<"0">>
      [] s = "1"                        -> <<"1">>
      [] s = "t"                        -> <<"t">>
      [] s = "42"                       -> <<"4", "2">>
      [] s = "-7"                       -> <<"-", "7">>
      [] s = "+5"                       -> <<"+", "5">>
      [] s = "-"                        -> <<"-">>
      [] s = "007"                      -> <<"0", "0", "7">>
      [] s = "12x"                      -> <<"1", "2", "x">>
      [] s = "1_0"                      -> <<"1", "_", "0">>
      [] s = " 42"                      -> <<" ", "4", "2">>
      [] s = "not-an-int"               -> <<"n", "o", "t", "-", "a", "n", "-", "i", "n", "t">>
      [] s = "true"                     -> <<"t", "r", "u", "e">>
      [] s = "TrUe"                     -> <<"T", "r", "U", "e">>
      [] s = "false"                    -> <<"f", "a", "l", "s", "e">>
      [] s = "9223372036854775808"      ->
            <<"9","2","2","3","3","7","2","0","3","6","8","5","4","7","7","5","8","0","8">>
      [] s = "999999999999999999999999" -> [i \in 1..24 |-> "9"]
      [] s = "custom.io/key"            ->
            <<"c", "u", "s", "t", "o", "m", ".", "i", "o", "/", "k", "e", "y">>

DigitVal == ("0" :> 0) @@ ("1" :> 1) @@ ("2" :> 2) @@ ("3" :> 3) @@ ("4" :> 4)
            @@ ("5" :> 5) @@ ("6" :> 6) @@ ("7" :> 7) @@ ("8" :> 8) @@ ("9" :> 9)

\* the decimal digits of the largest int (64 bits): 9223372036854775807
MaxIntDigits == <<9,2,2,3,3,7,2,0,3,6,8,5,4,7,7,5,8,0,7>>

RECURSIVE StripZeros(_)
StripZeros(ds) == IF ds # <<>> /\ ds[1] = 0 THEN StripZeros(Tail(ds)) ELSE ds

\* a <= b for two digit sequences of the same length
RECURSIVE DigitsLeq(_, _)
DigitsLeq(a, b) ==
    IF a = <<>> THEN TRUE
    ELSE IF a[1] # b[1] THEN a[1] < b[1]
    ELSE DigitsLeq(Tail(a), Tail(b))

RECURSIVE DigitsValue(_, _)
DigitsValue(ds, acc) ==
    IF ds = <<>> THEN acc ELSE DigitsValue(Tail(ds), acc * 10 + ds[1])

\* strconv.Atoi(s): an optional sign, then one or more decimal digits and nothing else;
\* a value outside the range of int is an error
Atoi(s) ==
    LET cs     == Chars(s)
        signed == cs # <<>> /\ cs[1] \in {"+", "-"}
        neg    == signed /\ cs[1] = "-"
        body   == IF signed THEN Tail(cs) ELSE cs
        syntax == body # <<>> /\ \A i \in DOMAIN body : body[i] \in DOMAIN DigitVal
        ds     == StripZeros([i \in DOMAIN body |-> DigitVal[body[i]]])
        \* the smallest int is -(largest) - 1
        limit  == IF neg THEN [MaxIntDigits EXCEPT ![Len(MaxIntDigits)] = @ + 1]
                  ELSE MaxIntDigits
        range  == \/ Len(ds) < Len(limit)
                  \/ Len(ds) = Len(limit) /\ DigitsLeq(ds, limit)
    IN  IF syntax /\ range
        THEN [ ok |-> TRUE,  n |-> IF neg THEN 0 - DigitsValue(ds, 0) ELSE DigitsValue(ds, 0) ]
        ELSE [ ok |-> FALSE, n |-> 0 ]

\* strconv.ParseBool(s)
ParseBool(s) ==
    IF s \in {"1", "t", "T", "TRUE", "true", "True"} THEN [ ok |-> TRUE, b |-> TRUE ]
    ELSE IF s \in {"0", "f", "F", "FALSE", "false", "False"} THEN [ ok |-> TRUE, b |-> FALSE ]
    ELSE [ ok |-> FALSE, b |-> FALSE ]

\* os.Getenv(key): the value, or "" when the variable is not set
Getenv(key) == IF key \in DOMAIN environ THEN environ[key] ELSE ""

\* (variant: the test for the empty value left out)
envEmptyAccepted(T, envVar, defaultValue) ==
    LET value == Getenv(envVar) IN
    IF envVar \in DOMAIN environ THEN
        CASE T = "string" -> value
          [] T = "int"    -> IF Atoi(value).ok THEN Atoi(value).n ELSE defaultValue
          [] T = "bool"   -> IF ParseBool(value).ok THEN ParseBool(value).b ELSE defaultValue
    ELSE defaultValue

\* env[T envVar](envVar string, defaultValue T) T, T being string, int or bool
env(T, envVar, defaultValue) ==
    LET value == Getenv(envVar) IN
    IF value # "" THEN
        CASE T = "string" -> value
          [] T = "int"    -> IF Atoi(value).ok THEN Atoi(value).n ELSE defaultValue
          [] T = "bool"   -> IF ParseBool(value).ok THEN ParseBool(value).b ELSE defaultValue
    ELSE defaultValue

\* (variant: the poll interval read without a default to fall back on)
NewPollIntervalRaw(cs) ==
    [ Clientset |-> cs,
      Annotations |->
        [ ProviderName |-> env("string", "KSS_SECRET_ANNOTATION_KEY_PROVIDER_NAME",
                               "k8s-secret-sync.weinbender.io/provider-name"),
          ProviderRef  |-> env("string", "KSS_SECRET_ANNOTATION_KEY_PROVIDER_REF",
                               "k8s-secret-sync.weinbender.io/provider-ref"),
          SecretKey    |-> env("string", "KSS_SECRET_ANNOTATION_KEY_SECRET_KEY",
                               "k8s-secret-sync.weinbender.io/secret-key") ],
      DefaultSecretDataKey |-> env("string", "KSS_DEFAULT_SECRET_DATA_KEY", "value"),
      PollInterval |-> Atoi(Getenv("KSS_POLL_INTERVAL")).n ]

\* New(cs): the configuration the process runs with
New(cs) ==
    [ Clientset |-> cs,
      Annotations |->
        [ ProviderName |-> env("string", "KSS_SECRET_ANNOTATION_KEY_PROVIDER_NAME",
                               "k8s-secret-sync.weinbender.io/provider-name"),
          ProviderRef  |-> env("string", "KSS_SECRET_ANNOTATION_KEY_PROVIDER_REF",
                               "k8s-secret-sync.weinbender.io/provider-ref"),
          SecretKey    |-> env("string", "KSS_SECRET_ANNOTATION_KEY_SECRET_KEY",
                               "k8s-secret-sync.weinbender.io/secret-key") ],
      DefaultSecretDataKey |-> env("string", "KSS_DEFAULT_SECRET_DATA_KEY", "value"),
      PollInterval |-> env("int", "KSS_POLL_INTERVAL", 300) ]

----------------------------------------------------------------------------
(* Maps *)

EmptyMap == <<>>

\* Go's m[k]: the value and whether the key exists; the zero value "" when not
Exists(m, k) == k \in DOMAIN m
Lookup(m, k) == IF k \in DOMAIN m THEN m[k] ELSE ""

\* maps.Copy(dst, src): every pair of src is written into dst
MapsCopy(dst, src) ==
    [k \in DOMAIN dst \cup DOMAIN src |-> IF k \in DOMAIN src THEN src[k] ELSE dst[k]]

Put(m, k, v) == [x \in DOMAIN m \cup {k} |-> IF x = k THEN v ELSE m[x]]

----------------------------------------------------------------------------
(* encoding/json writes a []byte as base64 (standard alphabet, padded); the *)
(* API server decodes it.  A base64 text is a sequence of digits 0..63,     *)
(* with 64 standing for the padding character.                              *)

RECURSIVE Base64Encode(_)
Base64Encode(bs) ==
    IF Len(bs) = 0 THEN <<>>
    ELSE IF Len(bs) = 1 THEN
        LET n == bs[1] * 65536
        IN  << n \div 262144, (n \div 4096) % 64, 64, 64 >>
    ELSE IF Len(bs) = 2 THEN
        LET n == bs[1] * 65536 + bs[2] * 256
        IN  << n \div 262144, (n \div 4096) % 64, (n \div 64) % 64, 64 >>
    ELSE
        LET n == bs[1] * 65536 + bs[2] * 256 + bs[3]
        IN  << n \div 262144, (n \div 4096) % 64, (n \div 64) % 64, n % 64 >>
            \o Base64Encode(SubSeq(bs, 4, Len(bs)))

RECURSIVE Base64Decode(_)
Base64Decode(ds) ==
    IF Len(ds) < 4 THEN <<>>
    ELSE
        LET d3 == IF ds[3] = 64 THEN 0 ELSE ds[3]
            d4 == IF ds[4] = 64 THEN 0 ELSE ds[4]
            n  == ds[1] * 262144 + ds[2] * 4096 + d3 * 64 + d4
            b  == << n \div 65536, (n \div 256) % 256, n % 256 >>
            k  == IF ds[3] = 64 THEN 1 ELSE IF ds[4] = 64 THEN 2 ELSE 3
        IN  SubSeq(b, 1, k) \o Base64Decode(SubSeq(ds, 5, Len(ds)))

----------------------------------------------------------------------------
(* Run: the provider map and the add handler *)

\* providers: the names that have a factory
providers == {"op"}

\* time.Now().UTC().Format(time.RFC3339) for a clock of `now` seconds
FormatRFC3339(now) == "2026-01-01T00:00:0" \o ToString(now) \o "Z"

\* providerName, exists := secret.Annotations[...]; !exists || providerName == "" returns
HasProvider(c, secret) ==
    /\ Exists(secret.ann, c.Annotations.ProviderName)
    /\ Lookup(secret.ann, c.Annotations.ProviderName) # ""

\* (variant: the check of the empty string left out)
HasRefExistsOnly(c, secret) == Exists(secret.ann, c.Annotations.ProviderRef)

\* secretID, exists := secret.Annotations[...]; !exists || secretID == "" returns
HasRef(c, secret) ==
    /\ Exists(secret.ann, c.Annotations.ProviderRef)
    /\ Lookup(secret.ann, c.Annotations.ProviderRef) # ""

\* (variant: the marker never looked at)
IsSyncedUnchecked(secret) == FALSE

\* (variant: an empty marker counted as no marker)
IsSyncedNonEmpty(secret) ==
    Exists(secret.ann, LastSynced) /\ Lookup(secret.ann, LastSynced) # ""

\* _, synced := secret.Annotations["last-synced"]: the key's presence decides, not its value
IsSynced(secret) == Exists(secret.ann, LastSynced)

\* (variant: the annotation ignored)
SecretDataKeyDefaultOnly(c, secret) == c.DefaultSecretDataKey

\* (variant: the check of the empty string left out)
SecretDataKeyExistsOnly(c, secret) ==
    IF Exists(secret.ann, c.Annotations.SecretKey)
    THEN Lookup(secret.ann, c.Annotations.SecretKey)
    ELSE c.DefaultSecretDataKey

\* secretDataKey: the annotation when it exists and is not "", the default otherwise
SecretDataKey(c, secret) ==
    IF /\ Exists(secret.ann, c.Annotations.SecretKey)
       /\ Lookup(secret.ann, c.Annotations.SecretKey) # ""
    THEN Lookup(secret.ann, c.Annotations.SecretKey)
    ELSE c.DefaultSecretDataKey

\* (variant: the marker not added to the copy)
PatchAnnotationsNoMarker(secret, now) == MapsCopy(EmptyMap, secret.ann)

\* annotations := make(map); maps.Copy(annotations, secret.Annotations); annotations["last-synced"] = now
PatchAnnotations(secret, now) ==
    Put(MapsCopy(EmptyMap, secret.ann), LastSynced, FormatRFC3339(now))

\* (variant: the value base64-encoded by hand before json.Marshal encodes it again)
PatchDataEncodedTwice(secretDataKey, value) ==
    Put(EmptyMap, secretDataKey, Base64Encode(value))

\* Data: map[string][]byte{secretDataKey: []byte(value)}
PatchData(secretDataKey, value) == Put(EmptyMap, secretDataKey, value)

\* (variant: the secret's type written into the patch as well)
MarshalWithType(patchData) ==
    [ metadata |-> [ annotations |-> patchData.Annotations ],
      data     |-> [k \in DOMAIN patchData.Data |-> Base64Encode(patchData.Data[k])],
      type     |-> "Opaque" ]

\* json.Marshal(patchData): the document sent as the patch body.  patchData is a
\* v1.Secret with ObjectMeta.Annotations and Data set: the fields tagged omitempty that
\* are empty are left out, and metadata is always written.  ObjectMeta.CreationTimestamp
\* is a struct (metav1.Time), which omitempty does not leave out: an apimachinery whose
\* tag is only omitempty writes "creationTimestamp": null, one whose tag has omitzero
\* writes nothing
Marshal(patchData) ==
    [ metadata |-> IF zeroTime = "null"
                   THEN [ creationTimestamp |-> "null", annotations |-> patchData.Annotations ]
                   ELSE [ annotations |-> patchData.Annotations ],
      data     |-> [k \in DOMAIN patchData.Data |-> Base64Encode(patchData.Data[k])] ]

\* (variant: the object written back whole, as an Update with the patch object would do)
ApplyPatchAsUpdate(obj, payload) ==
    [ ann    |-> payload.metadata.annotations,
      data   |-> [k \in DOMAIN payload.data |-> Base64Decode(payload.data[k])],
      labels |-> EmptyMap,
      type   |-> "" ]

\* The store applying a strategic merge patch to an object: maps are merged key by key,
\* and a field the patch does not name keeps its value; creationTimestamp is kept by the
\* server whatever the patch says of it
ApplyPatch(obj, payload) ==
    [ obj EXCEPT
        !.ann  = MapsCopy(obj.ann, payload.metadata.annotations),
        !.data = MapsCopy(obj.data,
                          [k \in DOMAIN payload.data |-> Base64Decode(payload.data[k])]) ]

\* (variant: a client is built without looking at the credential)
InitClientNoToken(tok, sdkOk) == sdkOk

\* op.InitClient, called by NewProvider: onepassword.NewClient is given the token of
\* OP_SERVICE_ACCOUNT_TOKEN and fails without one; with one, the SDK may still fail
InitClient(tok, sdkOk) == tok /\ sdkOk

\* What the collaborators answer during one invocation
NoResp == [ construct |-> FALSE, fetchOk |-> FALSE, value |-> <<>>, patchOk |-> FALSE ]

\* (variant: the fetch error logged with a fatal log call)
OnFetchErrorFatal(st) == "crashed"

\* klog.ErrorS(...); return -- the handler returns, the process goes on
OnFetchError(st) == st

\* (variant: the error of GetSecretValue not looked at)
FetchErrIgnored(resp) == FALSE

\* value, err := provider.GetSecretValue(ctx, secretID); err != nil
FetchErr(resp) == ~resp.fetchOk

\* (variant: the value of a fetch whose patch failed is kept and used for the next patch)
FetchedValueKept(resp) == IF h.outcome = "PatchFailed" THEN h.resp.value ELSE resp.value

\* value: the string GetSecretValue has just returned, a local of the invocation
FetchedValue(resp) == resp.value

\* (variant: annotations := secret.Annotations, the marker set through the alias, so an
\* invocation that got as far as the patch has written into the informer's object)
SnapshotAfterAliased(secret, outcome, now) ==
    IF outcome \in {"PatchFailed", "Synced"}
    THEN [secret EXCEPT !.ann = Put(@, LastSynced, FormatRFC3339(now))]
    ELSE secret

\* the object the informer handed over, as the handler leaves it: secret.Annotations is
\* only read (index expressions and maps.Copy's source), the marker goes into the map
\* make() returned, and secret.Data is never used
SnapshotAfter(secret, outcome, now) == secret

Result(secret, now, outcome, resp, constructCalls, getCalls, patchCalls, logged, returned) ==
    [ kind |-> "add", secret |-> secret, now |-> now, outcome |-> outcome, resp |-> resp,
      constructCalls |-> constructCalls, getCalls |-> getCalls, patchCalls |-> patchCalls,
      logged |-> logged, returned |-> returned,
      after |-> SnapshotAfter(secret, outcome, now) ]

\* AddFunc(obj): one invocation of the add handler, from the cast to the last log line
AddFunc(c, secret, now, resp) ==
    LET providerName  == Lookup(secret.ann, c.Annotations.ProviderName)
        secretID      == Lookup(secret.ann, c.Annotations.ProviderRef)
        secretDataKey == SecretDataKey(c, secret)
        patchData     == [ Annotations |-> PatchAnnotations(secret, now),
                           Data        |-> PatchData(secretDataKey, FetchedValue(resp)) ]
        patchCall     == [ id |-> secret.id, type |-> "StrategicMergePatch",
                           payload |-> Marshal(patchData) ]
    IN
    IF ~HasProvider(c, secret) THEN
        Result(secret, now, "Ineligible", NoResp, <<>>, <<>>, <<>>,
               <<"Processing secret with provider",
                 "Ignoring secret: no provider annotation">>, TRUE)
    ELSE IF ~HasRef(c, secret) THEN
        Result(secret, now, "Ineligible", NoResp, <<>>, <<>>, <<>>,
               <<"Processing secret with provider",
                 "Ignoring secret: no ref annotation">>, TRUE)
    ELSE IF IsSynced(secret) THEN
        Result(secret, now, "AlreadySynced", NoResp, <<>>, <<>>, <<>>,
               <<"Processing secret with provider",
                 "Secret has already been synced">>, TRUE)
    ELSE IF providerName \notin providers THEN
        \* providers[providerName] is a nil func for a name outside the map: calling it
        \* panics, nothing more is logged and the handler does not return; the informer's
        \* crash handler lets the panic through and the process dies
        Result(secret, now, "UnsupportedProvider", NoResp, <<>>, <<>>, <<>>,
               <<"Processing secret with provider">>, FALSE)
    ELSE IF ~resp.construct THEN
        Result(secret, now, "InitFailed", [NoResp EXCEPT !.construct = resp.construct],
               <<providerName>>, <<>>, <<>>,
               <<"Processing secret with provider",
                 "Failed to initialize provider">>, TRUE)
    ELSE IF FetchErr(resp) THEN
        Result(secret, now, "FetchFailed",
               [NoResp EXCEPT !.construct = resp.construct],
               <<providerName>>, <<secretID>>, <<>>,
               <<"Processing secret with provider",
                 "Failed to resolve secret URI">>, TRUE)
    ELSE IF ~resp.patchOk THEN
        Result(secret, now, "PatchFailed", resp,
               <<providerName>>, <<secretID>>, <<patchCall>>,
               <<"Processing secret with provider",
                 "Failed to update Kubernetes Secret">>, TRUE)
    ELSE
        Result(secret, now, "Synced", resp,
               <<providerName>>, <<secretID>>, <<patchCall>>,
               <<"Processing secret with provider",
                 "Successfully updated Kubernetes Secret">>, TRUE)

----------------------------------------------------------------------------
(* Inputs of the model *)

\* the secrets, in the order in which they are created
ObjOrder == << "ns/db-secret", "ns/api-key" >>
ObjIds == { ObjOrder[i] : i \in DOMAIN ObjOrder }

\* values the provider can return: 1, 2 and 3 bytes ("s", "s3", and a binary one)
Values == { <<115>>, <<115, 51>>, <<255, 0, 16>> }

Responses ==
    { r \in [ construct : BOOLEAN, fetchOk : BOOLEAN, value : Values \cup {<<>>},
              patchOk : BOOLEAN ] :
        (~r.fetchOk => r.value = <<>>) /\ (r.fetchOk => r.value \in Values) }

Absent == "<absent>"

ProviderChoices == {Absent, "", "op", "unknown-vendor"}
RefChoices      == {Absent, "", "vault-item-42"}
KeyChoices      == {Absent, "", "password"}
MarkerChoices   == {Absent, ""}

Annot(p, r, k, m) ==
    LET v == (cfg.Annotations.ProviderName :> p) @@ (cfg.Annotations.ProviderRef :> r)
             @@ (cfg.Annotations.SecretKey :> k) @@ (LastSynced :> m)
    IN  [x \in {y \in DOMAIN v : v[y] # Absent} |-> v[x]]

AnnotationMaps ==
    { Annot(p, r, k, m) : p \in ProviderChoices, r \in RefChoices,
                          k \in KeyChoices, m \in MarkerChoices }

\* the data a secret is created with: an old value under the default key, and another key
DataMaps == { ("value" :> <<111>>) @@ ("other" :> <<7>>) }

\* what else a stored secret has: its labels and its type
Labels == ("app" :> "db")
SecretType == "Opaque"

Snapshot(o) == [ id |-> o, ann |-> store[o].ann, data |-> store[o].data ]

NoSecret == [ id |-> "", ann |-> EmptyMap, data |-> EmptyMap ]

NoInvocation ==
    [ kind |-> "none", secret |-> NoSecret, now |-> 0, outcome |-> "none", resp |-> NoResp,
      constructCalls |-> <<>>, getCalls |-> <<>>, patchCalls |-> <<>>,
      logged |-> <<>>, returned |-> TRUE, after |-> NoSecret ]

----------------------------------------------------------------------------
(* The state machine *)

\* informers.NewSharedInformerFactory(cfg.Clientset, 10*time.Second): the period is the
\* literal, in seconds; no field of cfg but Clientset is read
ResyncPeriod(c) == 10

\* (variant: the period taken from the configuration)
ResyncPeriodConfigured(c) == c.PollInterval

\* no configuration yet
NoConf == [ Clientset |-> "", Annotations |-> cfg.Annotations,
            DefaultSecretDataKey |-> "", PollInterval |-> 0 ]

\* (variant: the resolved destination key stored in the configuration)
CfgAfterKeyStored(c, secret) == [c EXCEPT !.DefaultSecretDataKey = SecretDataKey(c, secret)]

\* cfg after an invocation of the handler: AddFunc reads cfg.Annotations,
\* cfg.DefaultSecretDataKey and cfg.Clientset and assigns to none of them
CfgAfter(c, secret) == c

\* What main holds from its last call: initClientSet, config.New, or a call of env
Call(fn, T, arg, def, res) == [ fn |-> fn, T |-> T, arg |-> arg, def |-> def, res |-> res ]

NoCall == Call("none", "", "", "", "")

\* the clientsets initClientSet can build: from the in-cluster configuration or a kubeconfig
Clientsets == { "in-cluster", "kubeconfig" }

\* No event yet: an empty cluster, nothing queued, nothing handled
InformerInit ==
    /\ store = EmptyMap
    /\ queue = <<>>
    /\ h = NoInvocation
    /\ prev = [ outcome |-> "none", id |-> "" ]
    /\ clock = 0
    /\ proc = "running"
    /\ starts = 0
    /\ nGet = 0

\* Run has registered the handler and the informer has started: the credential is
\* there, no KSS_* variable is set, no signal has come
Init ==
    /\ InformerInit
    /\ pc = "informer"
    /\ token = TRUE
    /\ ctxDone = FALSE
    /\ environ = EmptyMap
    /\ out = Call("New", "", "in-cluster", "", New("in-cluster"))
    /\ conf = New("in-cluster")
    /\ resync = ResyncPeriod(conf)
    /\ zeroTime = "omitted"
    /\ flight = <<>>

\* An invocation of the handler that has not returned is an entry of flight:
\*   secret   the object AddFunc was called with
\*   stage    "fetch" while GetSecretValue is awaited, "patch" while Patch is
\*   now      what time.Now() gave, value what GetSecretValue returned
\*   requests the patch requests still to be answered
\*   live     FALSE once the process that made the call is gone and only its request
\*            is left, on its way to the API server
NewFlight(secret) ==
    [ secret |-> secret, stage |-> "fetch", now |-> 0, value |-> <<>>, requests |-> <<>>,
      live |-> TRUE ]

IsOrphan(f) == ~f.live

Remove(seq, i) == [j \in 1..(Len(seq) - 1) |-> IF j < i THEN seq[j] ELSE seq[j + 1]]

\* (variant: the informer hands every notification to a goroutine of its own)
HandlerFreeAlways == TRUE

\* The informer's listener calls the registered functions one after the other from a
\* single goroutine, and AddFunc starts none: the next notification is handed over when
\* the call before it has returned
HandlerFree == \A i \in DOMAIN flight : ~flight[i].live

\* The objects that have a notification waiting in the queue
Pending == { queue[i].obj.id : i \in DOMAIN queue }

\* A secret is created in the cluster; the informer queues its add notification
CreateSecret ==
    /\ pc = "informer"
    /\ proc = "running"
    /\ Cardinality(DOMAIN store) < Len(ObjOrder)
    /\ \E a \in AnnotationMaps, d \in DataMaps :
         LET o == ObjOrder[Cardinality(DOMAIN store) + 1] IN
         /\ store' = store @@ (o :> [ ann |-> a, data |-> d,
                                      labels |-> Labels, type |-> SecretType ])
         /\ queue' = Append(queue, [ type |-> "add", obj |-> [ id |-> o, ann |-> a, data |-> d ] ])
    /\ UNCHANGED <<h, prev, clock, proc, starts, nGet, mainVars, conf, flight>>

\* The informer's periodic resync: an update notification for a cached object
Resync ==
    /\ proc = "running"
    /\ \E o \in DOMAIN store \ Pending :
         queue' = Append(queue, [ type |-> "update", obj |-> Snapshot(o) ])
    /\ UNCHANGED <<store, h, prev, clock, proc, starts, nGet, mainVars, conf, flight>>

\* The informer delivers an add notification: AddFunc runs to its end
HandleAdd ==
    /\ pc = "informer"
    /\ proc = "running"
    /\ queue # <<>>
    /\ Head(queue).type = "add"
    /\ \E resp \in Responses :
         LET secret == Head(queue).obj
             r      == AddFunc(conf, secret, clock, resp)
         IN  /\ r.resp = resp
             /\ conf' = CfgAfter(conf, secret)
             \* NewProvider succeeds only as InitClient does
             /\ \E sdkOk \in BOOLEAN : resp.construct = InitClient(token, sdkOk)
             \* Patch(ctx, ...) with a cancelled context returns its error
             /\ resp.patchOk => ~ctxDone
             /\ h' = r
             /\ nGet' = nGet + Len(r.getCalls)
             /\ prev' = [ outcome |-> h.outcome, id |-> h.secret.id ]
             /\ IF r.outcome = "Synced"
                THEN /\ store' = [store EXCEPT ![secret.id] = ApplyPatch(@, r.patchCalls[1].payload)]
                     /\ queue' = Append(Tail(queue),
                                        [ type |-> "update",
                                          obj  |-> [ id |-> secret.id,
                                                     ann |-> store'[secret.id].ann,
                                                     data |-> store'[secret.id].data ] ])
                ELSE /\ store' = store
                     /\ queue' = Tail(queue)
             /\ proc' = IF r.outcome = "UnsupportedProvider" THEN "crashed"
                        ELSE IF r.outcome = "FetchFailed" THEN OnFetchError(proc)
                        ELSE proc
    /\ clock' = IF clock < MaxClock THEN clock + 1 ELSE clock
    /\ UNCHANGED <<starts, mainVars, flight>>

\* The informer delivers an update notification: ResourceEventHandlerFuncs has no
\* UpdateFunc, so nothing is called and the notification is dropped
HandleUpdate ==
    /\ pc = "informer"
    /\ proc = "running"
    /\ queue # <<>>
    /\ Head(queue).type = "update"
    /\ HandlerFree
    /\ queue' = Tail(queue)
    /\ UNCHANGED <<store, h, prev, clock, proc, starts, nGet, mainVars, conf, flight>>

\* The orders in which the initial list can deliver the stored objects
ListOrders ==
    { q \in [1..Cardinality(DOMAIN store) -> DOMAIN store] :
        \A i, j \in DOMAIN q : i # j => q[i] # q[j] }

\* The process is started again (after a crash, or stopped and started): a new informer
\* lists the store and delivers every object as an add notification
Restart ==
    /\ starts < MaxRestarts
    /\ starts' = starts + 1
    /\ proc' = "running"
    /\ \E q \in ListOrders :
         queue' = [i \in DOMAIN q |-> [ type |-> "add", obj |-> Snapshot(q[i]) ]]
    /\ flight' = <<>>
    /\ UNCHANGED <<store, h, prev, clock, nGet, mainVars, conf>>

Next == Restart \/ CreateSecret \/ Resync \/ HandleAdd \/ HandleUpdate

Spec == Init /\ [][Next]_vars

----------------------------------------------------------------------------
(* main: from the start of the process to the blocking informer *)

\* clientset, err := initClientSet(); an error is logged and main returns
InitClientSet ==
    /\ pc = "start"
    /\ \/ \E cs \in Clientsets :
            /\ out' = Call("initClientSet", "", "", "", cs)
            /\ pc' = "config"
       \/ /\ out' = Call("initClientSet", "", "", "", "error")
          /\ pc' = "exited"
    /\ UNCHANGED <<store, queue, h, prev, clock, proc, starts, nGet, token, ctxDone, environ,
                   conf, resync, zeroTime, flight>>

\* cfg := config.New(clientset)
ConfigNew ==
    /\ pc = "config"
    /\ out' = Call("New", "", out.res, "", New(out.res))
    /\ conf' = New(out.res)
    /\ pc' = "run"
    /\ UNCHANGED <<store, queue, h, prev, clock, proc, starts, nGet, token, ctxDone, environ,
                   resync, zeroTime, flight>>

\* sync.Run(ctx, cfg): the handler is registered and secretInformer.Run(stop) is called.
\* That call returns when stop is closed; stop is closed only by the deferred close(stop),
\* which runs when Run returns, and ctx is not handed to the informer: main stays here
RunStart ==
    /\ pc = "run"
    /\ pc' = "informer"
    /\ resync' = ResyncPeriod(conf)
    /\ UNCHANGED <<store, queue, h, prev, clock, proc, starts, nGet, token, ctxDone, environ, out,
                   conf, zeroTime, flight>>

\* The process is alive; Exited is its opposite
Exited == pc = "exited" \/ proc = "crashed"

\* SIGINT or SIGTERM arrives: signal.NotifyContext has taken both signals over, so the
\* default action (ending the process) does not run; the context is cancelled
Signal ==
    /\ ~Exited
    /\ ~ctxDone
    /\ ctxDone' = TRUE
    /\ UNCHANGED <<store, queue, h, prev, clock, proc, starts, nGet, pc, token, environ, out,
                   conf, resync, zeroTime, flight>>

InitMain ==
    /\ InformerInit
    /\ pc = "start"
    /\ token \in BOOLEAN
    /\ ctxDone = FALSE
    /\ environ = EmptyMap
    /\ out = NoCall
    /\ conf = NoConf
    /\ resync = 0
    /\ zeroTime \in {"null", "omitted"}
    /\ flight = <<>>

NextMain ==
    InitClientSet \/ ConfigNew \/ RunStart \/ Signal \/ CreateSecret \/ HandleAdd \/ HandleUpdate

SpecMain == InitMain /\ [][NextMain]_vars

\* the steps of the program itself: they are taken when they can be
Program == InitClientSet \/ ConfigNew \/ RunStart \/ HandleAdd \/ HandleUpdate

SpecShutdown == InitMain /\ [][NextMain]_vars /\ WF_vars(Program)

----------------------------------------------------------------------------
(* Package config on its own: New and env over the environments of EnvChoices *)

StringChoices == { Absent, "", "custom.io/key" }

\* what KSS_POLL_INTERVAL can hold; a number of 11 to 19 digits inside the range of int
\* is left out, the model's integers being narrower
IntChoices ==
    { Absent, "", "0", "1", "42", "-7", "+5", "-", "007", "12x", "1_0", " 42", "not-an-int",
      "true", "TrUe", "false", "t", "9223372036854775808", "999999999999999999999999" }

EnvNames ==
    << "KSS_SECRET_ANNOTATION_KEY_PROVIDER_NAME", "KSS_SECRET_ANNOTATION_KEY_PROVIDER_REF",
       "KSS_SECRET_ANNOTATION_KEY_SECRET_KEY", "KSS_DEFAULT_SECRET_DATA_KEY",
       "KSS_POLL_INTERVAL" >>

Environ(a, b, c, d, e) ==
    LET v == (EnvNames[1] :> a) @@ (EnvNames[2] :> b) @@ (EnvNames[3] :> c)
             @@ (EnvNames[4] :> d) @@ (EnvNames[5] :> e)
    IN  [x \in {y \in DOMAIN v : v[y] # Absent} |-> v[x]]

\* the annotation keys are overridden together or not at all
EnvChoices ==
    { Environ(a, a, a, d, e) : a \in StringChoices, d \in StringChoices, e \in IntChoices }

\* the defaults env is called with, by type
Defaults(T) ==
    CASE T = "string" -> { "fallback" }
      [] T = "int"    -> { 7, 300 }
      [] T = "bool"   -> { TRUE, FALSE }

\* env(name, default) is called, for a variable of the environment
EnvCall ==
    /\ pc = "config"
    /\ \E T \in {"string", "int", "bool"} :
         \E i \in DOMAIN EnvNames, d \in Defaults(T) :
            out' = Call("env", T, EnvNames[i], d, env(T, EnvNames[i], d))
    /\ UNCHANGED <<store, queue, h, prev, clock, proc, starts, nGet, pc, token, ctxDone, environ,
                   conf, resync, zeroTime, flight>>

InitConfig ==
    /\ InformerInit
    /\ pc = "config"
    /\ token = TRUE
    /\ ctxDone = FALSE
    /\ environ \in EnvChoices
    /\ conf = NoConf
    /\ resync = 0
    /\ zeroTime = "omitted"
    /\ flight = <<>>
    /\ out \in { Call("initClientSet", "", "", "", cs) : cs \in Clientsets }

NextConfig == EnvCall \/ ConfigNew

SpecConfig == InitConfig /\ [][NextConfig]_vars

----------------------------------------------------------------------------
(* package op: the 1Password adapter on its own *)

\* the identifiers the adapter is called with
SecretIDs == { "op://vault/item/password", "op://vault/item/token", "" }

\* the errors Resolve can return
ResolveErrors == { "unauthorized", "not found" }

\* what p.Client.Secrets().Resolve can answer: a value and no error, or an error
\* together with whatever string the SDK returns beside it
ResolveAnswers ==
    { [ value |-> v, err |-> "nil" ] : v \in Values \cup {<<>>} }
    \cup { [ value |-> v, err |-> e ] : v \in {<<>>, <<115>>}, e \in ResolveErrors }

\* the service, as the answers it gives to the first and to the second Resolve call
Services == [ 1..2 -> ResolveAnswers ]

\* (variant: Resolve called once more after an error)
GetSecretValueRetry(secretID, service) ==
    LET first  == service[1]
        second == service[2]
    IN  IF first.err = "nil"
        THEN [ value |-> first.value, err |-> "nil", resolveCalls |-> <<secretID>>,
               logged |-> <<>> ]
        ELSE IF second.err = "nil"
        THEN [ value |-> second.value, err |-> "nil", resolveCalls |-> <<secretID, secretID>>,
               logged |-> <<>> ]
        ELSE [ value |-> <<>>, err |-> second.err, resolveCalls |-> <<secretID, secretID>>,
               logged |-> <<"Failed to resolve 1Password secret URI">> ]

\* func (p SecretProvider) GetSecretValue(ctx, secretID) (string, error): one Resolve
\* call; its error is logged and returned with "", its value is returned as it is
GetSecretValue(secretID, service) ==
    LET resolved == service[1]
    IN  IF resolved.err # "nil"
        THEN [ value |-> <<>>, err |-> resolved.err, resolveCalls |-> <<secretID>>,
               logged |-> <<"Failed to resolve 1Password secret URI">> ]
        ELSE [ value |-> resolved.value, err |-> "nil", resolveCalls |-> <<secretID>>,
               logged |-> <<>> ]

\* GetSecretValue is called, for an identifier and a service
GetSecretValueCall ==
    /\ pc = "provider"
    /\ \E secretID \in SecretIDs, service \in Services :
         out' = Call("GetSecretValue", "", [ secretID |-> secretID, service |-> service ], "",
                     GetSecretValue(secretID, service))
    /\ UNCHANGED <<store, queue, h, prev, clock, proc, starts, nGet, pc, token, ctxDone, environ,
                   conf, resync, zeroTime, flight>>

\* a client has been built (InitClient succeeded) and no call has been made
InitProvider ==
    /\ InformerInit
    /\ pc = "provider"
    /\ token = TRUE
    /\ ctxDone = FALSE
    /\ environ = EmptyMap
    /\ conf = NoConf
    /\ resync = 0
    /\ zeroTime = "omitted"
    /\ flight = <<>>
    /\ out = NoCall

NextProvider == GetSecretValueCall

SpecProvider == InitProvider /\ [][NextProvider]_vars

----------------------------------------------------------------------------
(* The handler step by step: its two calls out of the process take time, and the
   process can be stopped while one of them is under way *)

\* the secrets created here: eligible with and without a destination key, eligible with a
\* provider outside the map, already marked, and not annotated at all
WatchedAnnotationMaps ==
    { Annot("op", "vault-item-42", Absent, Absent),
      Annot("op", "vault-item-42", "password", Absent),
      Annot("unknown-vendor", "vault-item-42", Absent, Absent),
      Annot("op", "vault-item-42", Absent, ""),
      Annot(Absent, Absent, Absent, Absent) }

\* the values the provider returns here
WatchedValues == { <<115>>, <<115, 51>> }

\* (variant: the annotations and the data sent as two patches, one after the other)
PatchRequestsSplit(payload) ==
    << [payload EXCEPT !.data = EmptyMap],
       [payload EXCEPT !.metadata.annotations = EmptyMap] >>

\* the requests one invocation sends to the API server: a single Patch call whose
\* payload carries the annotations and the data together
PatchRequests(payload) == << payload >>

\* what the handler's collaborators have answered up to a stage of the invocation
RespAt(construct, fetchOk, value, patchOk) ==
    [ construct |-> construct, fetchOk |-> fetchOk, value |-> value, patchOk |-> patchOk ]

UpdateNotification(o, obj) ==
    [ type |-> "update", obj |-> [ id |-> o, ann |-> obj.ann, data |-> obj.data ] ]

\* A secret is created in the cluster; the informer queues its add notification
CreateWatched ==
    /\ pc = "informer"
    /\ proc = "running"
    /\ Cardinality(DOMAIN store) < Len(ObjOrder)
    /\ \E a \in WatchedAnnotationMaps, d \in DataMaps :
         LET o == ObjOrder[Cardinality(DOMAIN store) + 1] IN
         /\ store' = store @@ (o :> [ ann |-> a, data |-> d,
                                      labels |-> Labels, type |-> SecretType ])
         /\ queue' = Append(queue, [ type |-> "add", obj |-> [ id |-> o, ann |-> a, data |-> d ] ])
    /\ UNCHANGED <<h, prev, clock, proc, starts, nGet, mainVars, conf, flight>>

\* The informer calls AddFunc with the next add notification. The handler runs up to
\* provider.GetSecretValue: it returns before that for an object it ignores or when no
\* provider can be built, and it panics on a provider name outside the map
Deliver ==
    /\ pc = "informer"
    /\ proc = "running"
    /\ queue # <<>>
    /\ Head(queue).type = "add"
    /\ HandlerFree
    /\ \E construct \in BOOLEAN :
         LET secret == Head(queue).obj
             r      == AddFunc(conf, secret, clock, RespAt(construct, FALSE, <<>>, FALSE))
         IN  /\ \E sdkOk \in BOOLEAN : construct = InitClient(token, sdkOk)
             /\ conf' = CfgAfter(conf, secret)
             /\ queue' = Tail(queue)
             /\ IF r.outcome = "FetchFailed"
                THEN \* GetSecretValue has been called and has not answered yet
                     /\ flight' = Append(flight, NewFlight(secret))
                     /\ UNCHANGED <<h, prev, proc>>
                ELSE /\ h' = r
                     /\ prev' = [ outcome |-> h.outcome, id |-> h.secret.id ]
                     /\ proc' = IF r.outcome = "UnsupportedProvider" THEN "crashed" ELSE proc
                     /\ flight' = flight
    /\ UNCHANGED <<store, clock, starts, nGet, mainVars>>

\* GetSecretValue answers: with an error the handler logs and returns; with a value it
\* copies the annotations, reads the clock, marshals the patch and calls Patch
FetchReturn ==
    /\ proc = "running"
    /\ \E i \in DOMAIN flight :
         LET f == flight[i] IN
         /\ f.live /\ f.stage = "fetch"
         /\ \E fetchOk \in BOOLEAN, value \in WatchedValues \cup {<<>>} :
              LET r == AddFunc(conf, f.secret, clock, RespAt(TRUE, fetchOk, value, TRUE)) IN
              /\ fetchOk = (value # <<>>)
              /\ nGet' = nGet + Len(r.getCalls)
              /\ IF r.outcome = "FetchFailed"
                 THEN /\ h' = r
                      /\ prev' = [ outcome |-> h.outcome, id |-> h.secret.id ]
                      /\ proc' = OnFetchError(proc)
                      /\ flight' = Remove(flight, i)
                      /\ clock' = clock
                 ELSE /\ flight' = [flight EXCEPT ![i] =
                                      [@ EXCEPT !.stage = "patch", !.now = clock, !.value = value,
                                                !.requests = PatchRequests(r.patchCalls[1].payload)]]
                      /\ clock' = IF clock < MaxClock THEN clock + 1 ELSE clock
                      /\ UNCHANGED <<h, prev, proc>>
    /\ UNCHANGED <<store, queue, starts, mainVars, conf>>

\* The API server answers a patch request: an applied patch changes the stored object as
\* it is at that moment and the informer is notified of the update; when the last
\* request is answered, or one is refused, the handler logs and returns
PatchReturn ==
    /\ proc = "running"
    /\ \E i \in DOMAIN flight, patchOk \in BOOLEAN :
         LET f    == flight[i]
             o    == f.secret.id
             r    == AddFunc(conf, f.secret, f.now, RespAt(TRUE, TRUE, f.value, patchOk))
             last == Len(f.requests) = 1
         IN  /\ f.live /\ f.stage = "patch"
             /\ IF patchOk
                THEN /\ store' = [store EXCEPT ![o] = ApplyPatch(@, Head(f.requests))]
                     /\ queue' = Append(queue, UpdateNotification(o, store'[o]))
                ELSE UNCHANGED <<store, queue>>
             /\ IF last \/ ~patchOk
                THEN /\ h' = r
                     /\ prev' = [ outcome |-> h.outcome, id |-> h.secret.id ]
                     /\ flight' = Remove(flight, i)
                ELSE /\ flight' = [flight EXCEPT ![i].requests = Tail(@)]
                     /\ UNCHANGED <<h, prev>>
    /\ UNCHANGED <<clock, proc, starts, nGet, mainVars, conf>>

\* the requests the stopped process leaves behind: of every call still awaiting Patch,
\* the request it was awaiting
Orphans(fl) ==
    [ j \in DOMAIN SelectSeq(fl, LAMBDA f : f.stage = "patch") |->
        LET f == SelectSeq(fl, LAMBDA g : g.stage = "patch")[j]
        IN  [f EXCEPT !.live = FALSE, !.requests = << Head(f.requests) >>] ]

\* The process is stopped while a call of the handler is under way: the call is
\* abandoned. A fetch under way has no effect; a patch request already sent either
\* never reaches the API server or is still on its way
Kill ==
    /\ pc = "informer"
    /\ proc = "running"
    /\ \E i \in DOMAIN flight : flight[i].live
    \* only a stop that a start can follow is looked at
    /\ starts < MaxRestarts
    /\ proc' = "stopped"
    /\ \/ flight' = SelectSeq(flight, IsOrphan)
       \/ flight' = Orphans(flight)
    /\ UNCHANGED <<store, queue, h, prev, clock, starts, nGet, mainVars, conf>>

\* A patch request of a process that is gone reaches the API server and is applied
OrphanLands ==
    /\ \E i \in DOMAIN flight :
         LET f == flight[i]
             o == f.secret.id
         IN  /\ ~f.live
             /\ store' = [store EXCEPT ![o] = ApplyPatch(@, Head(f.requests))]
             /\ queue' = IF proc = "running"
                         THEN Append(queue, UpdateNotification(o, store'[o]))
                         ELSE queue
             /\ flight' = Remove(flight, i)
    /\ UNCHANGED <<h, prev, clock, proc, starts, nGet, mainVars, conf>>

\* The process is started again after it was stopped or has crashed: a new informer
\* lists the store and delivers every object as an add notification; a request the old
\* process had sent may still arrive
StartAgain ==
    /\ proc # "running"
    /\ starts < MaxRestarts
    /\ starts' = starts + 1
    /\ proc' = "running"
    /\ \E q \in ListOrders :
         queue' = [i \in DOMAIN q |-> [ type |-> "add", obj |-> Snapshot(q[i]) ]]
    /\ UNCHANGED <<store, h, prev, clock, nGet, mainVars, conf, flight>>

NextFlight ==
    \/ CreateWatched
    \/ Deliver
    \/ FetchReturn
    \/ PatchReturn
    \/ HandleUpdate
    \/ Kill
    \/ StartAgain
    \/ OrphanLands

SpecFlight == Init /\ [][NextFlight]_vars

\* the steps of the running process: the informer hands over the next notification and
\* the calls under way return; they are taken when they can be
HandlerSteps == Deliver \/ FetchReturn \/ PatchReturn \/ HandleUpdate

SpecRecovery == Init /\ [][NextFlight]_vars /\ WF_vars(HandlerSteps)

\* the annotations another client of the API server writes: the provider reference of
\* the secret, and one of its own
EditedAnnotations == { cfg.Annotations.ProviderRef, "example.io/owner" }

\* Another client of the API server (a user, another controller) sets an annotation of
\* a stored secret, once per annotation; the informer is notified of the update
WriterEdit ==
    /\ pc = "informer"
    /\ \E o \in DOMAIN store, a \in EditedAnnotations :
         /\ Lookup(store[o].ann, a) # "edited"
         /\ store' = [store EXCEPT ![o].ann = Put(@, a, "edited")]
         /\ queue' = IF proc = "running"
                     THEN Append(queue, UpdateNotification(o, store'[o]))
                     ELSE queue
    /\ UNCHANGED <<h, prev, clock, proc, starts, nGet, mainVars, conf, flight>>

NextWriter ==
    \/ CreateWatched
    \/ Deliver
    \/ FetchReturn
    \/ PatchReturn
    \/ HandleUpdate
    \/ WriterEdit

SpecWriter == Init /\ [][NextWriter]_vars

----------------------------------------------------------------------------
(* Vocabulary of the properties *)

ProviderKey == cfg.Annotations.ProviderName
RefKey      == cfg.Annotations.ProviderRef
DestKey     == cfg.Annotations.SecretKey

MissingOrEmpty(m, k) == k \notin DOMAIN m \/ m[k] = ""

\* the object of the last add event has a usable provider name and reference
EligibleH == ~MissingOrEmpty(h.secret.ann, ProviderKey) /\ ~MissingOrEmpty(h.secret.ann, RefKey)
UnsyncedH == LastSynced \notin DOMAIN h.secret.ann

NoCalls(r) == r.constructCalls = <<>> /\ r.getCalls = <<>> /\ r.patchCalls = <<>>

\* the destination key as the specification resolves it
ResolvedKey(ann) ==
    IF DestKey \in DOMAIN ann /\ ann[DestKey] # "" THEN ann[DestKey] ELSE cfg.DefaultSecretDataKey

\* the step is an invocation of the add handler; the first two conjuncts only spare
\* the work of looking for the handler's answers in the steps that queue or restart
AddStep == Len(queue') <= Len(queue) /\ starts' = starts /\ HandleAdd

\* the handler issued a Patch call in its last invocation
Patched == h.kind = "add" /\ h.patchCalls # <<>>

----------------------------------------------------------------------------
\* C1: an add event whose object has the provider-name or the reference annotation
\* missing or empty makes no provider construction, no GetSecretValue call and no
\* Patch call, and the handler returns normally.
C1_EligibilityGate ==
    (h.kind = "add" /\ ~EligibleH) => (NoCalls(h) /\ h.returned /\ proc = "running")

\* an object with provider "op" and an empty reference was skipped
C1_Witness ==
    /\ h.kind = "add"
    /\ ProviderKey \in DOMAIN h.secret.ann /\ h.secret.ann[ProviderKey] = "op"
    /\ RefKey \in DOMAIN h.secret.ann /\ h.secret.ann[RefKey] = ""
    /\ UnsyncedH
    /\ h.outcome = "Ineligible"

\* C2: an event whose object already carries last-synced makes no provider call and
\* no Patch call, whatever its other annotations are; so the second event for an
\* object this process has just synced makes no call.
C2_Idempotence ==
    (h.kind = "add" /\ ~UnsyncedH) => NoCalls(h)

\* the object was synced by this process, listed again, and skipped
C2_Witness ==
    /\ h.kind = "add"
    /\ starts > 0
    /\ ~UnsyncedH
    /\ h.secret.ann[LastSynced] = FormatRFC3339(0)
    /\ h.secret.ann[ProviderKey] = "op"
    /\ h.outcome = "AlreadySynced"

\* C3 as stated: every add event of an eligible, unsynced object makes exactly one
\* GetSecretValue call with the reference, and one Patch call when it succeeds.
C3_Original ==
    (h.kind = "add" /\ EligibleH /\ UnsyncedH) =>
        /\ h.getCalls = << h.secret.ann[RefKey] >>
        /\ (h.resp.fetchOk => Len(h.patchCalls) = 1)

\* C3 as the code has it: at most one GetSecretValue call, made exactly when the named
\* provider is in the map and its construction succeeds; when the call succeeds, exactly
\* one Patch call, for the same object, whose payload carries last-synced and the pair
\* {resolved destination key: fetched value}; no Patch call otherwise.
C3_OneFetchOnePatch ==
    (h.kind = "add" /\ EligibleH /\ UnsyncedH) =>
        /\ h.getCalls = IF h.secret.ann[ProviderKey] \in providers /\ h.resp.construct
                        THEN << h.secret.ann[RefKey] >> ELSE <<>>
        /\ IF h.getCalls # <<>> /\ h.resp.fetchOk
           THEN /\ Len(h.patchCalls) = 1
                /\ h.patchCalls[1].id = h.secret.id
                /\ LastSynced \in DOMAIN h.patchCalls[1].payload.metadata.annotations
                /\ h.patchCalls[1].payload.metadata.annotations[LastSynced] = FormatRFC3339(h.now)
                /\ h.patchCalls[1].payload.data =
                      (ResolvedKey(h.secret.ann) :> Base64Encode(h.resp.value))
           ELSE h.patchCalls = <<>>

\* an eligible, unsynced object was fetched and patched
C3_Witness ==
    /\ h.kind = "add" /\ EligibleH /\ UnsyncedH
    /\ h.outcome = "Synced"
    /\ Len(h.getCalls) = 1 /\ Len(h.patchCalls) = 1

\* C4: the computed patch, applied to the annotations and the data of the object the
\* event carried, keeps every annotation and adds exactly last-synced, and sets exactly
\* the destination key of the data to the fetched value, leaving the other keys alone.
C4_PatchRoundTrip ==
    Patched =>
        LET before == [ ann |-> h.secret.ann, data |-> h.secret.data ]
            after  == ApplyPatch(before, h.patchCalls[1].payload)
            key    == ResolvedKey(h.secret.ann)
        IN  /\ LastSynced \notin DOMAIN before.ann
            /\ DOMAIN after.ann = DOMAIN before.ann \cup {LastSynced}
            /\ \A k \in DOMAIN before.ann : after.ann[k] = before.ann[k]
            /\ DOMAIN after.data = DOMAIN before.data \cup {key}
            /\ after.data[key] = h.resp.value
            /\ \A k \in DOMAIN before.data \ {key} : after.data[k] = before.data[k]

\* a three-byte value overwrote the old value under the default key, and the store
\* holds what the round trip predicts
C4_Witness ==
    /\ Patched /\ h.outcome = "Synced"
    /\ ResolvedKey(h.secret.ann) \in DOMAIN h.secret.data
    /\ Len(h.resp.value) = 3
    /\ h.secret.id \in DOMAIN store
    /\ store[h.secret.id].data[ResolvedKey(h.secret.ann)] = h.resp.value

\* C5 as stated: an eligible, unsynced object that names a provider outside the
\* provider map ends the event without GetSecretValue or Patch call, with the condition
\* logged and the handler returning normally.
C5_Claim ==
    (h.kind = "add" /\ EligibleH /\ UnsyncedH /\ h.secret.ann[ProviderKey] \notin providers) =>
        /\ h.getCalls = <<>> /\ h.patchCalls = <<>>
        /\ Len(h.logged) > 1
        /\ h.returned

\* C6 as stated: after every per-object error the handler has logged and returned and
\* the process keeps running, so that later events are still handled.
C6_Claim ==
    (h.kind = "add" /\ h.outcome \in {"UnsupportedProvider", "InitFailed", "FetchFailed", "PatchFailed"}) =>
        /\ h.returned
        /\ Len(h.logged) > 1
        /\ proc = "running"

\* C7: a failed GetSecretValue for object A leaves the process running, and the next
\* add event, for an eligible unsynced object B whose provider is constructed, makes
\* one GetSecretValue call with B's reference and, when it succeeds, one Patch call for
\* B whose payload holds B's annotations plus last-synced, and B's value under B's
\* destination key, and nothing else.
C7_FailureIsolation ==
    /\ (h.outcome = "FetchFailed" => proc = "running")
    /\ ( ( /\ prev.outcome = "FetchFailed"
           /\ h.kind = "add" /\ EligibleH /\ UnsyncedH
           /\ h.secret.ann[ProviderKey] \in providers /\ h.resp.construct ) =>
         /\ h.getCalls = << h.secret.ann[RefKey] >>
         /\ IF h.resp.fetchOk
            THEN h.patchCalls =
                   << [ id |-> h.secret.id, type |-> "StrategicMergePatch",
                        payload |->
                          [ metadata |->
                              [ annotations |->
                                  Put(h.secret.ann, LastSynced, FormatRFC3339(h.now)) ],
                            data |-> (ResolvedKey(h.secret.ann) :> Base64Encode(h.resp.value)) ] ] >>
            ELSE h.patchCalls = <<>> )

\* A's fetch failed, and then another object B was fetched and synced
C7_Witness ==
    /\ prev.outcome = "FetchFailed"
    /\ h.kind = "add" /\ h.secret.id # prev.id
    /\ h.outcome = "Synced"
    /\ proc = "running"

\* the object of the last add event, with the absent annotation k added as ""
WithEmpty(secret, k) == [ secret EXCEPT !.ann = Put(secret.ann, k, "") ]

\* two invocations made the same calls and produced the same patch, the copy of the
\* annotation k in the patch aside
SameCallsAndPatch(r1, r2, k) ==
    /\ r1.outcome = r2.outcome
    /\ r1.constructCalls = r2.constructCalls
    /\ r1.getCalls = r2.getCalls
    /\ Len(r1.patchCalls) = Len(r2.patchCalls)
    /\ \A i \in DOMAIN r1.patchCalls :
         LET p1 == r1.patchCalls[i]
             p2 == r2.patchCalls[i]
             a1 == p1.payload.metadata.annotations
             a2 == p2.payload.metadata.annotations
         IN  /\ p1.id = p2.id /\ p1.type = p2.type
             /\ p1.payload.data = p2.payload.data
             /\ DOMAIN a1 \ {k} = DOMAIN a2 \ {k}
             /\ \A x \in DOMAIN a1 \ {k} : a1[x] = a2[x]

EmptyIsAbsent(k) ==
    (h.kind = "add" /\ k \notin DOMAIN h.secret.ann) =>
        SameCallsAndPatch(AddFunc(cfg, WithEmpty(h.secret, k), h.now, h.resp), h, k)

\* C8 as stated: for the provider name, the reference, the destination key and the
\* last-synced marker alike, an annotation with value "" is handled as an absent one.
C8_Original ==
    \A k \in {ProviderKey, RefKey, DestKey, LastSynced} : EmptyIsAbsent(k)

\* C8 as the code has it: the provider name, the reference and the destination key
\* with value "" are handled as absent ones (same outcome, same calls, same patch but
\* for the copy of that annotation); the marker is not among them.
C8_EmptyIsAbsent ==
    \A k \in {ProviderKey, RefKey, DestKey} : EmptyIsAbsent(k)

\* an object without destination-key annotation was synced, under the default key
C8_Witness ==
    /\ h.kind = "add" /\ h.outcome = "Synced"
    /\ DestKey \notin DOMAIN h.secret.ann
    /\ AddFunc(cfg, WithEmpty(h.secret, DestKey), h.now, h.resp).outcome = "Synced"
    /\ DOMAIN h.patchCalls[1].payload.data = {cfg.DefaultSecretDataKey}

\* C9: the data key the patch writes is the destination-key annotation when that is
\* present and not empty, and the configured default, "value", otherwise.
C9_DestinationKey ==
    Patched =>
        /\ DOMAIN h.patchCalls[1].payload.data =
             { IF DestKey \in DOMAIN h.secret.ann /\ h.secret.ann[DestKey] # ""
               THEN h.secret.ann[DestKey] ELSE "value" }
        /\ (h.outcome = "Synced" /\ h.secret.id \in DOMAIN store =>
              \E k \in DOMAIN h.patchCalls[1].payload.data :
                  k \in DOMAIN store[h.secret.id].data)

\* the annotation named "password" and the patch wrote that key
C9_Witness ==
    /\ Patched /\ h.outcome = "Synced"
    /\ DestKey \in DOMAIN h.secret.ann /\ h.secret.ann[DestKey] = "password"
    /\ DOMAIN h.patchCalls[1].payload.data = {"password"}
    /\ store[h.secret.id].data["password"] = h.resp.value

\* an update notification is delivered for the eligible, unsynced object whose last
\* attempt failed
UpdateDeliveredAfterFailure ==
    /\ proc = "running" /\ queue # <<>>
    /\ Head(queue).type = "update"
    /\ queue' = Tail(queue) /\ starts' = starts
    /\ h.kind = "add" /\ h.outcome \in {"FetchFailed", "PatchFailed"}
    /\ Head(queue).obj.id = h.secret.id
    /\ Head(queue).obj.ann = h.secret.ann
    /\ EligibleH /\ UnsyncedH

\* C10 as stated: the next change notification for an object whose last attempt
\* failed, an update notification included, starts a new attempt with a new provider
\* fetch.
C10_Claim == [][UpdateDeliveredAfterFailure => nGet' = nGet + 1]_vars

----------------------------------------------------------------------------
\* C11: once SIGINT or SIGTERM has been received, the process eventually exits (Run
\* returns or is abandoned, main passes <-ctx.Done() and logs that it shuts down).
C11_Claim == ctxDone ~> Exited

\* C12: when GetSecretValue returns an error, the handler makes no Patch call for that
\* event, and every stored object, the one of the event included, has after the event
\* the annotations and the data it had before it: no last-synced is added.
C12_FetchFailureUntouched ==
    [][ (nGet' = nGet + 1 /\ ~h'.resp.fetchOk) => (h'.patchCalls = <<>> /\ store' = store) ]_vars

\* a fetch for an object failed, and the object is stored as its event showed it
C12_Witness ==
    /\ h.kind = "add" /\ h.outcome = "FetchFailed"
    /\ h.getCalls = << "vault-item-42" >>
    /\ ~h.resp.fetchOk
    /\ store[h.secret.id].ann = h.secret.ann
    /\ store[h.secret.id].data = h.secret.data
    /\ LastSynced \notin DOMAIN store[h.secret.id].ann

\* C13: a handler step whose Patch call fails leaves the store as it was.  The next
\* handler step for that object builds a provider again and, with the provider built,
\* calls GetSecretValue again with the object's reference; a patch it sends carries the
\* value of that new call, never one kept from the failed attempt.
C13_PatchFailureDiscards ==
    [][ AddStep =>
          /\ h'.outcome = "PatchFailed" => store' = store
          /\ (h.outcome = "PatchFailed" /\ h'.secret.id = h.secret.id) =>
                /\ h'.constructCalls = << h'.secret.ann[ProviderKey] >>
                /\ h'.resp.construct => (h'.getCalls = << h'.secret.ann[RefKey] >>
                                         /\ nGet' = nGet + 1)
                /\ h'.patchCalls # <<>> =>
                      h'.patchCalls[1].payload.data =
                          (ResolvedKey(h'.secret.ann) :> Base64Encode(h'.resp.value))
      ]_vars

\* the patch for an object failed, the process was started again, and the object was
\* synced with the value fetched at the second attempt
C13_Witness ==
    /\ starts > 0
    /\ prev.outcome = "PatchFailed" /\ prev.id = h.secret.id
    /\ h.kind = "add" /\ h.outcome = "Synced"
    /\ h.getCalls = << "vault-item-42" >>
    /\ store[h.secret.id].data[ResolvedKey(h.secret.ann)] = h.resp.value

\* initClientSet returned an error
ClientSetFailed == out.fn = "initClientSet" /\ out.res = "error"

BuiltBefore == prev.outcome \in {"FetchFailed", "PatchFailed", "Synced"}

\* C15: no provider is constructed before the first event that needs one, and a provider
\* name is constructed at most once in the life of the process: after an invocation has
\* built the provider, a later invocation in the same process uses that instance and
\* calls no factory.
C15_Claim ==
    /\ h.kind = "none" => nGet = 0
    /\ BuiltBefore => h.constructCalls = <<>>

DecimalOf ==
    ("0" :> 0) @@ ("1" :> 1) @@ ("42" :> 42) @@ ("-7" :> 0 - 7) @@ ("+5" :> 5) @@ ("007" :> 7)

\* the variable is set and is not the empty string
SetNonEmpty(name) == name \in DOMAIN environ /\ environ[name] # ""

\* the value a string field of the configuration is to have
Expected(name, default) == IF SetNonEmpty(name) THEN environ[name] ELSE default

\* C17: config.New returns, for ProviderName, ProviderRef, SecretKey and
\* DefaultSecretDataKey, the value of the KSS_* variable when it is set and not empty,
\* and otherwise the default; for PollInterval the integer KSS_POLL_INTERVAL spells when
\* it is set, not empty and a decimal integer, and otherwise 300; the Clientset is the
\* one passed in.  With no variable set the keys are those the handler runs with.
C17_New ==
    out.fn = "New" =>
        /\ out.res.Annotations.ProviderName =
              Expected("KSS_SECRET_ANNOTATION_KEY_PROVIDER_NAME",
                       "k8s-secret-sync.weinbender.io/provider-name")
        /\ out.res.Annotations.ProviderRef =
              Expected("KSS_SECRET_ANNOTATION_KEY_PROVIDER_REF",
                       "k8s-secret-sync.weinbender.io/provider-ref")
        /\ out.res.Annotations.SecretKey =
              Expected("KSS_SECRET_ANNOTATION_KEY_SECRET_KEY",
                       "k8s-secret-sync.weinbender.io/secret-key")
        /\ out.res.DefaultSecretDataKey = Expected("KSS_DEFAULT_SECRET_DATA_KEY", "value")
        /\ out.res.PollInterval =
              IF SetNonEmpty("KSS_POLL_INTERVAL")
                 /\ environ["KSS_POLL_INTERVAL"] \in DOMAIN DecimalOf
              THEN DecimalOf[environ["KSS_POLL_INTERVAL"]] ELSE 300
        /\ out.res.Clientset = out.arg
        /\ DOMAIN environ = {} =>
              /\ out.res.Annotations = cfg.Annotations
              /\ out.res.DefaultSecretDataKey = cfg.DefaultSecretDataKey

\* New ran with the annotation keys overridden, the data key left alone and a poll
\* interval that does not parse
C17_Witness ==
    /\ out.fn = "New" /\ out.arg = "kubeconfig"
    /\ SetNonEmpty("KSS_SECRET_ANNOTATION_KEY_PROVIDER_NAME")
    /\ "KSS_DEFAULT_SECRET_DATA_KEY" \notin DOMAIN environ
    /\ SetNonEmpty("KSS_POLL_INTERVAL") /\ environ["KSS_POLL_INTERVAL"] = "not-an-int"
    /\ out.res.Annotations.ProviderName = "custom.io/key"
    /\ out.res.DefaultSecretDataKey = "value"
    /\ out.res.PollInterval = 300
    /\ out.res.Clientset = "kubeconfig"

\* What the strings of the environment mean as booleans; the others mean none
BoolOf ==
    ("1" :> TRUE) @@ ("t" :> TRUE) @@ ("true" :> TRUE) @@ ("0" :> FALSE) @@ ("false" :> FALSE)

\* C18: env(name, default) returns the default when the variable is unset, is the empty
\* string, or does not parse as the type of the default (int or bool); otherwise it
\* returns the parsed value: the string itself for a string default, the integer the
\* string spells for an int default, the boolean for a bool default.  Every call returns.
C18_Env ==
    out.fn = "env" =>
        LET name == out.arg IN
        CASE out.T = "string" ->
                out.res = IF SetNonEmpty(name) THEN environ[name] ELSE out.def
          [] out.T = "int" ->
                out.res = IF SetNonEmpty(name) /\ environ[name] \in DOMAIN DecimalOf
                          THEN DecimalOf[environ[name]] ELSE out.def
          [] out.T = "bool" ->
                out.res = IF SetNonEmpty(name) /\ environ[name] \in DOMAIN BoolOf
                          THEN BoolOf[environ[name]] ELSE out.def

\* env was called with an int default for a variable holding a signed number
C18_Witness ==
    /\ out.fn = "env" /\ out.T = "int" /\ out.def = 300
    /\ out.arg = "KSS_POLL_INTERVAL"
    /\ SetNonEmpty(out.arg) /\ environ[out.arg] = "-7"
    /\ out.res = 0 - 7

\* C19: with no override configured, the annotation key that selects the provider
\* (Annotations.ProviderName of the configuration New returns) is
\* k8s-secret-sync.weinbender.io/provider.
C19_Claim ==
    (out.fn = "New" /\ "KSS_SECRET_ANNOTATION_KEY_PROVIDER_NAME" \notin DOMAIN environ) =>
        out.res.Annotations.ProviderName = "k8s-secret-sync.weinbender.io/provider"

\* C20: a handler step whose patch for an object succeeds leaves every other object of
\* the store as it was, creates and deletes no object, and changes of the patched object
\* only the annotations and the data entry at the destination key: labels, type and the
\* other data keys keep their values.
C20_Frame ==
    [][ (h'.outcome = "Synced" /\ AddStep) =>
          LET id == h'.secret.id
              k  == ResolvedKey(h'.secret.ann)
          IN  /\ DOMAIN store' = DOMAIN store
              /\ \A o \in DOMAIN store \ {id} : store'[o] = store[o]
              /\ store'[id].labels = store[id].labels
              /\ store'[id].type = store[id].type
              /\ DOMAIN store'[id].data = DOMAIN store[id].data \cup {k}
              /\ \A dk \in DOMAIN store[id].data \ {k} :
                    store'[id].data[dk] = store[id].data[dk]
      ]_vars

\* the second object was patched at the key "password": its old entries, its labels and
\* its type are there, and the first object has no marker
C20_Witness ==
    /\ h.kind = "add" /\ h.outcome = "Synced" /\ h.secret.id = "ns/api-key"
    /\ ResolvedKey(h.secret.ann) = "password"
    /\ store["ns/api-key"].data = ("password" :> h.resp.value) @@ ("value" :> <<111>>)
                                  @@ ("other" :> <<7>>)
    /\ store["ns/api-key"].labels = Labels
    /\ store["ns/api-key"].type = SecretType
    /\ ~Exists(store["ns/db-secret"].ann, LastSynced)

\* the body of the Patch call of the last invocation
Payload == h.patchCalls[1].payload

\* the annotations and the data entry the patch is to carry
PayloadMaps ==
    /\ Payload.metadata.annotations =
          [a \in DOMAIN h.secret.ann \cup {LastSynced} |->
              IF a = LastSynced THEN FormatRFC3339(h.now) ELSE h.secret.ann[a]]
    /\ Payload.data = (ResolvedKey(h.secret.ann) :> Base64Encode(h.resp.value))

\* C21 as stated: the patch body has only two fields, the annotations map under metadata
\* and a data map with the single entry {destination key: fetched value}; it names no
\* other field of the object.
C21_Original ==
    Patched =>
        /\ DOMAIN Payload = {"metadata", "data"}
        /\ DOMAIN Payload.metadata = {"annotations"}
        /\ PayloadMaps

\* C21 as the code has it: the patch body has the annotations map (the snapshot's
\* annotations and last-synced) and a data map with the single entry {destination key:
\* fetched value}; the only other field it can name is metadata.creationTimestamp, with
\* the value null, and it does so exactly in a build whose JSON encoding writes the zero
\* timestamp.
C21_PayloadFields ==
    Patched =>
        /\ DOMAIN Payload = {"metadata", "data"}
        /\ DOMAIN Payload.metadata =
              IF zeroTime = "null" THEN {"annotations", "creationTimestamp"}
              ELSE {"annotations"}
        /\ zeroTime = "null" => Payload.metadata.creationTimestamp = "null"
        /\ PayloadMaps

\* a patch whose body names the null creationTimestamp was applied
C21_Witness ==
    /\ Patched /\ h.outcome = "Synced"
    /\ "creationTimestamp" \in DOMAIN Payload.metadata
    /\ store[h.secret.id].data[ResolvedKey(h.secret.ann)] = h.resp.value

\* C27: the period at which the running informer resyncs is the configured PollInterval
\* (KSS_POLL_INTERVAL seconds, 300 when unset), so a different configured value gives a
\* different period
C27_Claim ==
    pc = "informer" => resync = conf.PollInterval

\* C30: the configuration is read-only once the informer runs: no event, whatever its
\* outcome (and no other step of the running process), changes cfg.Annotations,
\* cfg.DefaultSecretDataKey or cfg.PollInterval
C30_CfgReadOnly ==
    [][ pc = "informer" =>
          /\ conf'.Annotations = conf.Annotations
          /\ conf'.DefaultSecretDataKey = conf.DefaultSecretDataKey
          /\ conf'.PollInterval = conf.PollInterval ]_vars

\* a secret that names its own destination key has been synced, and the configuration is
\* still the one New built
C30_Witness ==
    /\ h.kind = "add" /\ h.outcome = "Synced"
    /\ ResolvedKey(h.secret.ann) # conf.DefaultSecretDataKey
    /\ conf = New(conf.Clientset)

\* C29: the handler never changes the object it was handed: after any add event, whatever
\* its outcome, the snapshot's annotations and data are what they were at delivery (the
\* marker went into a copy of the annotation map)
C29_SnapshotKept ==
    h.kind = "add" =>
        /\ h.after.ann = h.secret.ann
        /\ h.after.data = h.secret.data
        /\ h.after.id = h.secret.id

\* an event ended in a successful patch that carries the marker, and the snapshot it
\* was called with still has none
C29_Witness ==
    /\ h.kind = "add" /\ h.outcome = "Synced"
    /\ LastSynced \in DOMAIN h.patchCalls[1].payload.metadata.annotations
    /\ LastSynced \notin DOMAIN h.after.ann
    /\ store[h.secret.id].ann[LastSynced] = FormatRFC3339(h.now)

\* C28: the adapter does not retry: one GetSecretValue call makes exactly one Resolve
\* call, with the identifier it was given; on success it returns the resolved value
\* unchanged and no error, on failure the empty string and that call's error
C28_NoRetry ==
    out.fn = "GetSecretValue" =>
        LET answer == out.arg.service[1]
            r      == out.res
        IN  /\ r.resolveCalls = <<out.arg.secretID>>
            /\ IF answer.err = "nil"
               THEN r.value = answer.value /\ r.err = "nil"
               ELSE r.value = <<>> /\ r.err = answer.err

\* the first Resolve failed, with a string beside the error, and a second one would
\* have succeeded: the call returned "" and the first error after one Resolve
C28_Witness ==
    /\ out.fn = "GetSecretValue"
    /\ out.arg.service[1].err = "unauthorized" /\ out.arg.service[1].value # <<>>
    /\ out.arg.service[2].err = "nil" /\ out.arg.service[2].value # <<>>
    /\ out.res.err = "unauthorized" /\ out.res.value = <<>>
    /\ Len(out.res.resolveCalls) = 1

\* the calls of the handler that the running process has made and that have not returned
LiveCalls == { i \in DOMAIN flight : flight[i].live }

\* C23: the handler processes one notification at a time: at no moment are two
\* reconciliations of this process (a provider fetch or a patch) under way, so no two
\* patches of this process are under way for one object either
C23_Sequential ==
    /\ Cardinality(LiveCalls) <= 1
    /\ \A i, j \in LiveCalls :
         (flight[i].stage = "patch" /\ flight[j].stage = "patch"
            /\ flight[i].secret.id = flight[j].secret.id) => i = j

\* a patch is under way for one object while the add notification of another object that
\* needs a reconciliation waits in the queue
C23_Witness ==
    /\ proc = "running"
    /\ \E i \in LiveCalls : flight[i].stage = "patch"
    /\ queue # <<>> /\ Head(queue).type = "add"
    /\ \A i \in LiveCalls : Head(queue).obj.id # flight[i].secret.id
    /\ AddFunc(conf, Head(queue).obj, clock, RespAt(TRUE, TRUE, <<115>>, TRUE)).outcome = "Synced"

\* the marker of a stored object: its value if it has one
Mark(obj) == IF LastSynced \in DOMAIN obj.ann THEN << obj.ann[LastSynced] >> ELSE << >>

\* C25: the marker and the value are written together: whenever the marker or the data of
\* a stored object changes, one patch of a reconciliation has been applied, and after it
\* the object has that reconciliation's marker and, under the destination key, the
\* value that reconciliation fetched (its other data as before). A reconciliation that
\* failed or was abandoned therefore leaves neither the marker without the value nor
\* the value without the marker
C25_Atomic ==
    [][ \A o \in DOMAIN store :
          (Mark(store'[o]) # Mark(store[o]) \/ store'[o].data # store[o].data) =>
              \E i \in DOMAIN flight :
                  LET f == flight[i] IN
                  /\ f.stage = "patch" /\ f.secret.id = o
                  /\ Mark(store'[o]) = << FormatRFC3339(f.now) >>
                  /\ store'[o].data = Put(store[o].data, SecretDataKey(conf, f.secret), f.value)
      ]_vars

\* the process was stopped during a patch that never arrived: the object synced before
\* has marker and value, the other one has neither
C25_Witness ==
    /\ proc = "stopped" /\ flight = <<>>
    /\ h.kind = "add" /\ h.outcome = "Synced"
    /\ Mark(store[h.secret.id]) = << FormatRFC3339(h.now) >>
    /\ store[h.secret.id].data[ResolvedKey(h.secret.ann)] = h.resp.value
    /\ \E o \in DOMAIN store :
         /\ o # h.secret.id
         /\ AddFunc(conf, Snapshot(o), clock, RespAt(TRUE, TRUE, <<115>>, TRUE)).outcome = "Synced"
         /\ Mark(store[o]) = << >>
         /\ store[o].data \in DataMaps

\* the patch of call i is applied in this step: the request of a stopped process arrives,
\* or Patch returns without error to the running one
Landed(i) ==
    /\ flight[i].stage = "patch"
    /\ flight' = Remove(flight, i)
    /\ proc' = proc
    /\ flight[i].live => (h'.outcome = "Synced" /\ h'.secret = flight[i].secret)

\* the patch of call i is the second one made from an unsynced snapshot of the object:
\* the snapshot has no marker and the stored object has one already
SecondPatch(i) ==
    /\ Landed(i)
    /\ Mark(flight[i].secret) = << >>
    /\ Mark(store[flight[i].secret.id]) # << >>

\* what every second patch leaves: the snapshot's annotations plus the marker, and the
\* snapshot's data with the destination key set
SecondPatchResult(i) ==
    LET f == flight[i]
        o == f.secret.id
    IN  /\ store'[o].ann = Put(f.secret.ann, LastSynced, FormatRFC3339(f.now))
        /\ store'[o].data = Put(f.secret.data, SecretDataKey(conf, f.secret), f.value)
        /\ store'[o].labels = store[o].labels /\ store'[o].type = store[o].type

\* the provider returned for call i the value the first patch wrote
SameValue(i) ==
    LET f == flight[i]
    IN  store[f.secret.id].data[SecretDataKey(conf, f.secret)] = f.value

\* C24 as stated: when the same unsynced snapshot is reconciled twice, the second patch
\* leaves the object with the snapshot's annotations plus last-synced and the destination
\* key set, and in the state the first patch left whenever the value is the same
C24_Original ==
    [][ \A i \in DOMAIN flight :
          SecondPatch(i) =>
              /\ SecondPatchResult(i)
              /\ SameValue(i) => store'[flight[i].secret.id] = store[flight[i].secret.id]
      ]_vars

\* C24 as the code has it: the second patch leaves the object with the snapshot's
\* annotations plus last-synced and the destination key set; whenever the value is the
\* same, the object is as the first patch left it but for the value of last-synced,
\* which is the time read by the reconciliation whose patch is applied last
C24_DuplicateHarmless ==
    [][ \A i \in DOMAIN flight :
          SecondPatch(i) =>
              /\ SecondPatchResult(i)
              /\ SameValue(i) =>
                   LET o == flight[i].secret.id IN
                   /\ store'[o].data = store[o].data
                   /\ DOMAIN store'[o].ann = DOMAIN store[o].ann
                   /\ \A a \in DOMAIN store[o].ann \ {LastSynced} :
                        store'[o].ann[a] = store[o].ann[a]
                   /\ store'[o].ann[LastSynced] = FormatRFC3339(flight[i].now)
      ]_vars

\* an unsynced snapshot was reconciled by the process that was stopped and again by the
\* one started after it: both patches were applied, with the same value and different
\* times, as the two update notifications in the queue show
C24_Witness ==
    /\ starts > 0
    /\ h.kind = "add" /\ h.outcome = "Synced" /\ Mark(h.secret) = << >>
    /\ \E i, j \in DOMAIN queue :
         /\ i < j
         /\ queue[i].type = "update" /\ queue[j].type = "update"
         /\ queue[i].obj.id = h.secret.id /\ queue[j].obj.id = h.secret.id
         /\ queue[i].obj.data = queue[j].obj.data
         /\ Mark(queue[i].obj) # << >> /\ Mark(queue[j].obj) # << >>
         /\ Mark(queue[i].obj) # Mark(queue[j].obj)
         /\ Mark(queue[j].obj) = Mark(store[h.secret.id])

\* C22: a patch that is applied changes, of the annotations the stored object has at
\* that moment, only last-synced: every other one keeps its value, also when another
\* writer has set it after the snapshot of the event was taken
C22_Claim ==
    [][ \A i \in DOMAIN flight :
          Landed(i) =>
              LET o == flight[i].secret.id IN
              \A a \in DOMAIN store[o].ann \ {LastSynced} :
                  a \in DOMAIN store'[o].ann /\ store'[o].ann[a] = store[o].ann[a]
      ]_vars

\* the stored object o is eligible and carries no marker
NeedsSync(o) ==
    /\ o \in DOMAIN store
    /\ ~MissingOrEmpty(store[o].ann, ProviderKey)
    /\ ~MissingOrEmpty(store[o].ann, RefKey)
    /\ Mark(store[o]) = << >>

\* an add notification of o waits in the queue
AddPending(o) == \E i \in DOMAIN queue : queue[i].type = "add" /\ queue[i].obj.id = o

\* every stored object is listed when the process starts again
Relisted ==
    StartAgain =>
        \A o \in DOMAIN store :
            \E i \in DOMAIN queue' : queue'[i] = [ type |-> "add", obj |-> Snapshot(o) ]

\* C26: after the process was stopped with a call of the handler under way (the only way
\* proc becomes "stopped") and started again,
\* the re-list delivers every stored object as an add notification; every eligible
\* object without marker then gets a new call of the handler, as long as the process is
\* not stopped again; an object carrying the marker gets no provider or store call
C26_Claim ==
    /\ [][Relisted]_vars
    /\ [](h.kind = "add" /\ Mark(h.secret) # << >> => NoCalls(h))
    /\ \A o \in ObjIds :
         [](proc = "stopped" =>
              ((NeedsSync(o) /\ AddPending(o)) ~> (~AddPending(o) \/ proc = "stopped")))

\* (the same with the crash of the process as a second way out)
RecoveryUnlessCrash ==
    \A o \in ObjIds :
        [](proc = "stopped" =>
             ((NeedsSync(o) /\ AddPending(o))
                 ~> (~AddPending(o) \/ proc = "stopped" \/ proc = "crashed")))

====
